---- MODULE Spec2Model ----
(***************************************************************************)
(* Model of react-native-remodal (src/src/index.tsx): the ReModalProvider  *)
(* registry (views, visibleView, configs, currentView), the ReModal        *)
(* declaration's effects, the Modal renderer and the runOpacityTimer       *)
(* animation block.                                                        *)
(*                                                                         *)
(* Time is measured in animation frames.  A timing run lasts Duration      *)
(* frames; position is an integer in units of 1/One.                       *)
(***************************************************************************)
EXTENDS Integers, Sequences, FiniteSets, TLC

\* ------------------------------------------------------------------ bounds
\* <ReModal> declarations in the tree.
NumDecl == 2
\* config.duration (300 ms / 240 ms), in frames.
Duration == 3
\* Largest number of frames between two evaluations of a block.
MaxDt == 2
\* Distinct functions a callback prop may be (0 is undefined).
NumCb == 1
\* ReModal renders and unmounts in one behaviour.
MaxOps == 4

\* --------------------------------------------------------------- constants
BEGAN == 0
END == 1
undefined == 0
Unset == -1

Decl == 1..NumDecl
One == Duration * Duration
Callback == 0..NumCb

\* cuid(): one fresh key per mounted declaration, never reused.
cuid(d) == d

VARIABLES
    inside,         \* per declaration: is it rendered below a ReModalProvider
    phase,          \* per declaration: "new", "mounted", "unmounted", "threw"
    isVisibleProp,  \* per declaration: the isVisible prop of its last render
    views,          \* Provider state `views`: ordered entries [key, value]
    visibleView,    \* Provider ref `visibleView`: ordered entries [key, value]
    configs,        \* Provider ref `configs`: ordered entries [key, value]
    currentView,    \* `currentView` as computed by the last Provider render
    renderPending,  \* setViews was called and the Provider has not rendered yet
    modals,         \* key -> the <Modal> instance rendered for it, or NoModal
    ops,            \* number of ReModal renders/unmounts so far (bounded)
    \* history variables, read by no operation of the program
    lastOp,         \* what the last step was
    lastCalls,      \* callbacks invoked by the last step, in order
    consumed,       \* what the hardwareBackPress listener returned in the last step
    runCalls,       \* key -> completion callbacks invoked since its run started
    shows,          \* key -> onModalShow calls since the last setVisible(key, false)
    repeat          \* key -> re-rendered visible again since the last setVisible(key, false)

vars == <<inside, phase, isVisibleProp, views, visibleView, configs, currentView,
          renderPending, modals, ops, lastOp, lastCalls, consumed, runCalls, shows,
          repeat>>

\* ------------------------------------------------------------ JS objects
\* An object with string keys keeps insertion order; {...obj, [key]: v}
\* replaces the value in place when the key exists and appends otherwise.
HasKey(obj, key) == \E i \in 1..Len(obj) : obj[i].key = key

Spread(obj, key, v) ==
    IF HasKey(obj, key)
    THEN [i \in 1..Len(obj) |-> IF obj[i].key = key THEN [key |-> key, value |-> v] ELSE obj[i]]
    ELSE Append(obj, [key |-> key, value |-> v])

\* obj[key]; a missing key reads as `dflt`.
Get(obj, key, dflt) ==
    IF HasKey(obj, key)
    THEN obj[CHOOSE i \in 1..Len(obj) : obj[i].key = key].value
    ELSE dflt

\* ----------------------------------------------------------------- configs
\* The record ReModal passes to setConfig (modalAnimationFunction and the
\* layout hints are opaque and left out).
Config == [onCancel : Callback, autoCloseWhenOpeningNextDialog : BOOLEAN,
           onModalShow : Callback, onModalHide : Callback]

\* `{}`: every field reads as undefined.
EmptyConfig == [onCancel |-> undefined, autoCloseWhenOpeningNextDialog |-> FALSE,
                onModalShow |-> undefined, onModalHide |-> undefined]


\* ---------------------------------------------------------------- Provider
\* const [currentView] = Object.entries(visibleView.current).find(([_, v]) => v) || []
CurrentViewOf(vv) ==
    IF \E i \in 1..Len(vv) : vv[i].value
    THEN vv[CHOOSE i \in 1..Len(vv) : vv[i].value /\ \A j \in 1..(i-1) : ~vv[j].value].key
    ELSE undefined

\* const selectedView = (key) => (key && configs.current[key]) || {}
selectedView(cfgs, key) ==
    IF key # undefined THEN Get(cfgs, key, EmptyConfig) ELSE EmptyConfig

Call(fn, of, cb, by, key, keyVisible) ==
    [fn |-> fn, of |-> of, cb |-> cb, by |-> by, key |-> key, keyVisible |-> keyVisible]

\* Mutant: the courtesy call is made whatever the flag of the current dialog.
setVisibleCalls_IgnoresFlag(cv, cfgs, vv, key, visible) ==
    LET view == selectedView(cfgs, cv) IN
    IF visible /\ view.onCancel # undefined
    THEN <<Call("onCancel", cv, view.onCancel, "setVisible", key, Get(vv, key, FALSE))>>
    ELSE <<>>

\* Mutant: the flag is read from the configuration of the dialog being opened.
setVisibleCalls_OpenedFlag(cv, cfgs, vv, key, visible) ==
    LET view == selectedView(cfgs, cv) IN
    IF visible /\ view.onCancel # undefined
               /\ selectedView(cfgs, key).autoCloseWhenOpeningNextDialog
    THEN <<Call("onCancel", cv, view.onCancel, "setVisible", key, Get(vv, key, FALSE))>>
    ELSE <<>>

\* setVisible, first half: the auto-close courtesy call.  `cv` is the
\* currentView captured by the closure, `vv` is visibleView.current when the
\* call is made.
setVisibleCalls(cv, cfgs, vv, key, visible) ==
    LET view == selectedView(cfgs, cv) IN
    IF visible /\ view.onCancel # undefined /\ view.autoCloseWhenOpeningNextDialog
    THEN <<Call("onCancel", cv, view.onCancel, "setVisible", key, Get(vv, key, FALSE))>>
    ELSE <<>>

\* setVisible, second half: visibleView.current = {...visibleView.current, [key]: visible}
setVisibleStore(vv, key, visible) == Spread(vv, key, visible)

\* Mutant: opening a dialog also sets the current dialog to hidden.
setVisible_HidesCurrent(cv, cfgs, vv, key, visible) ==
    [calls |-> setVisibleCalls(cv, cfgs, vv, key, visible),
     vv    |-> IF visible /\ cv # undefined /\ cv # key
               THEN setVisibleStore(setVisibleStore(vv, cv, FALSE), key, visible)
               ELSE setVisibleStore(vv, key, visible)]

\* setVisible as a whole: the calls it makes and the visibleView it leaves.
setVisible(cv, cfgs, vv, key, visible) ==
    [calls |-> setVisibleCalls(cv, cfgs, vv, key, visible),
     vv    |-> setVisibleStore(vv, key, visible)]

\* setConfig: configs.current = {...configs.current, [key]: config}
setConfig(cfgs, key, config) == Spread(cfgs, key, config)

\* setView: setViews((views) => ({...views, [key]: view})); view is TRUE for
\* an element and FALSE for undefined.
setView(vs, key, view) == Spread(vs, key, view)

\* ----------------------------------------------------------------- ReModal
\* useContext(ReModalContext): the Provider's value, or the default `{}`.
useContext(hasProvider) == [setView |-> hasProvider]

\* Mutant: the guard is missing.
Throws_Never(ctx) == FALSE

\* if (!setView) throw new Error(...)
Throws(ctx) == ~ctx.setView


\* ------------------------------------------------------- runOpacityTimer
\* Easing.inOut(Easing.ease), sampled per frame as a numerator over One.  The
\* bezier curve is replaced by the quadratic ease-in-out: like it, monotone,
\* 0 at frame 0, One at frame Duration and symmetric.
Easing(f) ==
    IF f >= Duration THEN One
    ELSE IF 2 * f <= Duration THEN 2 * f * f
    ELSE One - 2 * (Duration - f) * (Duration - f)

Abs(x) == IF x < 0 THEN -x ELSE x
Min(a, b) == IF a < b THEN a ELSE b

\* The <Modal> instance: its props of the last render, its refs and the
\* animated values created by runOpacityTimer.
NoModal ==
    [mounted |-> FALSE, isVisible |-> FALSE, children |-> FALSE, onCancel |-> undefined,
     init |-> FALSE, animationState |-> Unset,
     onModalShow |-> undefined, onModalHide |-> undefined,
     finished |-> FALSE, position |-> 0, timeSet |-> FALSE, frameTime |-> 0,
     toValue |-> Unset, clockRunning |-> FALSE, dirty |-> FALSE]

\* set(state.finished, 0), set(state.time, 0), set(state.frameTime, 0),
\* set(config.toValue, to), startClock(clock)
StartRun(m, to) ==
    [m EXCEPT !.finished = FALSE, !.timeSet = FALSE, !.frameTime = 0,
              !.toValue = to, !.clockRunning = TRUE]

\* cond(and(eq(gestureState, State.BEGAN), neq(config.toValue, 1)), [...])
CondBegan(m) ==
    IF m.animationState = BEGAN /\ m.toValue # 1 THEN StartRun(m, 1) ELSE m

\* cond(and(eq(gestureState, State.END), neq(config.toValue, 0)), [...])
CondEnd(m) ==
    IF m.animationState = END /\ m.toValue # 0 THEN StartRun(m, 0) ELSE m

\* timing(clock, state, config) of the animation library, `dt` frames after
\* the previous evaluation.  state.time = 0 means "no previous evaluation in
\* this run": the first evaluation of a run advances nothing.  frameTime is
\* capped at Duration (only `>= duration` is ever asked of larger values).
timing(m, dt) ==
    LET newFrameTime == m.frameTime + (IF m.timeSet THEN dt ELSE 0)
        target       == m.toValue * One
        distanceLeft == target - m.position
        shrunk       == (Abs(distanceLeft) * (One - Easing(newFrameTime)))
                            \div (One - Easing(m.frameTime))
        nextPosition == IF distanceLeft < 0 THEN target + shrunk ELSE target - shrunk
    IN  IF newFrameTime >= Duration
        THEN [m EXCEPT !.position = target, !.finished = TRUE,
                       !.frameTime = Duration, !.timeSet = TRUE]
        ELSE [m EXCEPT !.position = nextPosition,
                       !.frameTime = newFrameTime, !.timeSet = TRUE]

\* cond(state.finished, stopClock(clock))
StopIfFinished(m) == IF m.finished THEN [m EXCEPT !.clockRunning = FALSE] ELSE m

\* Mutant: onModalShow is called on every evaluation made under BEGAN.
ShowCalls_Unfinished(m, key) ==
    IF m.onModalShow # undefined /\ m.animationState = BEGAN
    THEN <<Call("onModalShow", key, m.onModalShow, "engine", key, FALSE)>>
    ELSE <<>>

\* onModalShow && cond(and(state.finished, eq(gestureState, State.BEGAN)), call([], onModalShow))
ShowCalls(m, key) ==
    IF m.onModalShow # undefined /\ m.finished /\ m.animationState = BEGAN
    THEN <<Call("onModalShow", key, m.onModalShow, "engine", key, FALSE)>>
    ELSE <<>>

\* onModalHide && cond(and(state.finished, eq(gestureState, State.END)), call([], onModalHide))
HideCalls(m, key) ==
    IF m.onModalHide # undefined /\ m.finished /\ m.animationState = END
    THEN <<Call("onModalHide", key, m.onModalHide, "engine", key, FALSE)>>
    ELSE <<>>

\* Mutant: the timing step is evaluated before the signal is looked at.
runOpacityTimer_TimingFirst(m, key, dt) ==
    LET m1 == timing(m, dt)
        m2 == CondBegan(m1)
        m3 == CondEnd(m2)
        m4 == StopIfFinished(m3)
    IN  [m |-> [m4 EXCEPT !.dirty = FALSE],
         calls |-> ShowCalls(m4, key) \o HideCalls(m4, key)]

\* One evaluation of the block returned by runOpacityTimer.
runOpacityTimer(m, key, dt) ==
    LET m1 == CondBegan(m)
        m2 == CondEnd(m1)
        m3 == timing(m2, dt)
        m4 == StopIfFinished(m3)
    IN  [m |-> [m4 EXCEPT !.dirty = FALSE],
         calls |-> ShowCalls(m4, key) \o HideCalls(m4, key)]

\* interpolate(state.position, {inputRange: [0, 1], outputRange: [0, 1], CLAMP})
Progress(m) == IF m.position < 0 THEN 0 ELSE IF m.position > One THEN One ELSE m.position

\* ------------------------------------------------------------------- Modal
\* useEffect(() => { if (init.current) animationState.setValue(...); init.current = true }, [isVisible])
ModalEffect(m) ==
    [m EXCEPT !.animationState = IF m.init THEN (IF m.isVisible THEN BEGAN ELSE END) ELSE @,
              !.dirty = IF m.init THEN TRUE ELSE @,
              !.init = TRUE]

\* First render of a <Modal>: the refs are created (animationState -1, the
\* engine with the callbacks of this render) and the effect runs once.  The
\* node is attached to the view, which evaluates it once (dirty).
ModalMount(isVisible, children, cfg) ==
    ModalEffect([NoModal EXCEPT !.mounted = TRUE, !.isVisible = isVisible,
                                !.children = children, !.onCancel = cfg.onCancel,
                                !.onModalShow = cfg.onModalShow,
                                !.onModalHide = cfg.onModalHide,
                                !.dirty = TRUE])

\* Mutant: the effect has no dependency list and runs after every render.
ModalUpdate_EffectAlways(m, isVisible, children, cfg) ==
    ModalEffect([m EXCEPT !.isVisible = isVisible, !.children = children,
                          !.onCancel = cfg.onCancel])

\* Later render: new props; the effect runs when isVisible changed.
ModalUpdate(m, isVisible, children, cfg) ==
    LET m1 == [m EXCEPT !.isVisible = isVisible, !.children = children,
                        !.onCancel = cfg.onCancel]
    IN  IF isVisible # m.isVisible THEN ModalEffect(m1) ELSE m1

\* <Modal {...props} children={view} isVisible={visibleView.current[key]} key={key} />
Modal(m, isVisible, children, cfg) ==
    IF m.mounted THEN ModalUpdate(m, isVisible, children, cfg)
    ELSE ModalMount(isVisible, children, cfg)

\* pointerEvents={isVisible ? 'auto' : 'none'}
Intercepts(m) == m.mounted /\ m.isVisible


\* ----------------------------------------------------------------- actions
Op(op, key, opened) == [op |-> op, key |-> key, opened |-> opened]

Init ==
    /\ inside \in [Decl -> BOOLEAN]
    /\ phase = [d \in Decl |-> "new"]
    /\ isVisibleProp = [d \in Decl |-> FALSE]
    /\ views = <<>>
    /\ visibleView = <<>>
    /\ configs = <<>>
    /\ currentView = undefined
    /\ renderPending = FALSE
    /\ modals = [k \in Decl |-> NoModal]
    /\ ops = 0
    /\ lastOp = Op("init", undefined, FALSE)
    /\ lastCalls = <<>>
    /\ consumed = FALSE
    /\ runCalls = [k \in Decl |-> 0]
    /\ shows = [k \in Decl |-> 0]
    /\ repeat = [k \in Decl |-> FALSE]

\* First render of a <ReModal>.  Without a Provider above it the render
\* throws and no effect ever runs; otherwise its three effects run in order:
\* setVisible, setConfig, setView.
Mount(d, isVisible, cfg) ==
    /\ consumed' = FALSE
    /\ phase[d] = "new"
    /\ ops < MaxOps
    /\ ops' = ops + 1
    /\ IF Throws(useContext(inside[d]))
       THEN /\ phase' = [phase EXCEPT ![d] = "threw"]
            /\ lastOp' = Op("throw", cuid(d), FALSE)
            /\ lastCalls' = <<>>
            /\ UNCHANGED <<isVisibleProp, views, visibleView, configs, renderPending>>
       ELSE LET id == cuid(d)
                sv == setVisible(currentView, configs, visibleView, id, isVisible)
            IN  /\ visibleView' = sv.vv
                /\ lastCalls' = sv.calls
                /\ configs' = setConfig(configs, id, cfg)
                /\ views' = setView(views, id, TRUE)
                /\ phase' = [phase EXCEPT ![d] = "mounted"]
                /\ isVisibleProp' = [isVisibleProp EXCEPT ![d] = isVisible]
                /\ renderPending' = TRUE
                /\ lastOp' = Op("mount", id, isVisible)
    /\ UNCHANGED <<inside, currentView, modals, runCalls, shows, repeat>>

\* Re-render of a mounted <ReModal> with new props.  Effects whose deps
\* changed are torn down first (setVisible(id, false), setView(id, undefined))
\* and then run again; the setConfig effect runs on every render (`rest` is a
\* fresh object each time).
Update(d, isVisible, cfg, newChildren) ==
    /\ consumed' = FALSE
    /\ phase[d] = "mounted"
    /\ ops < MaxOps
    /\ ops' = ops + 1
    /\ LET id  == cuid(d)
           chg == isVisible # isVisibleProp[d]
           vv1 == IF chg
                  THEN setVisible(currentView, configs, visibleView, id, FALSE).vv
                  ELSE visibleView
           vs1 == IF newChildren THEN setView(views, id, FALSE) ELSE views
           sv  == IF chg
                  THEN setVisible(currentView, configs, vv1, id, isVisible)
                  ELSE [calls |-> <<>>, vv |-> vv1]
       IN  /\ visibleView' = sv.vv
           /\ lastCalls' = sv.calls
           /\ configs' = setConfig(configs, id, cfg)
           /\ views' = IF newChildren THEN setView(vs1, id, TRUE) ELSE vs1
           /\ lastOp' = Op("update", id, chg /\ isVisible)
           /\ shows' = IF chg THEN [shows EXCEPT ![id] = 0] ELSE shows
           /\ repeat' = [repeat EXCEPT ![id] = ~chg /\ (isVisible \/ @)]
    /\ isVisibleProp' = [isVisibleProp EXCEPT ![d] = isVisible]
    /\ renderPending' = (renderPending \/ newChildren)
    /\ UNCHANGED <<inside, phase, currentView, modals, runCalls>>

\* A <ReModal> leaves the tree: the cleanups of its effects run.
Unmount(d) ==
    /\ consumed' = FALSE
    /\ phase[d] = "mounted"
    /\ ops < MaxOps
    /\ ops' = ops + 1
    /\ LET id == cuid(d)
           sv == setVisible(currentView, configs, visibleView, id, FALSE)
       IN  /\ visibleView' = sv.vv
           /\ lastCalls' = sv.calls
           /\ views' = setView(views, id, FALSE)
           /\ lastOp' = Op("unmount", id, FALSE)
           /\ shows' = [shows EXCEPT ![id] = 0]
           /\ repeat' = [repeat EXCEPT ![id] = FALSE]
    /\ phase' = [phase EXCEPT ![d] = "unmounted"]
    /\ renderPending' = TRUE
    /\ UNCHANGED <<inside, isVisibleProp, configs, currentView, modals, runCalls>>

\* {Object.entries(views).map(([key, view]) => <Modal .../>)}
Overlays(vs, vv, cfgs, ms) ==
    [k \in Decl |->
        IF HasKey(vs, k)
        THEN Modal(ms[k], Get(vv, k, FALSE), Get(vs, k, FALSE), selectedView(cfgs, k))
        ELSE ms[k]]

\* One render of ReModalProvider and the commit that follows: currentView is
\* recomputed from visibleView.current, one <Modal> is rendered per entry of
\* `views`, and the effects of the Modals run.
ProviderRender ==
    /\ consumed' = FALSE
    /\ currentView' = CurrentViewOf(visibleView)
    /\ modals' = Overlays(views, visibleView, configs, modals)
    /\ renderPending' = FALSE
    /\ lastOp' = Op("render", undefined, FALSE)
    /\ lastCalls' = <<>>
    /\ UNCHANGED <<inside, phase, isVisibleProp, views, visibleView, configs, ops,
                   runCalls, shows, repeat>>

\* The animation clock evaluates the block of one Modal: either its clock is
\* running (every frame) or one of its inputs was set since the last
\* evaluation.
Tick(k, dt) ==
    /\ consumed' = FALSE
    /\ modals[k].mounted
    /\ modals[k].clockRunning \/ modals[k].dirty
    /\ LET r == runOpacityTimer(modals[k], k, dt)
           restarted == r.m.toValue # modals[k].toValue
           shown == Len(SelectSeq(r.calls, LAMBDA c : c.fn = "onModalShow"))
       IN  /\ modals' = [modals EXCEPT ![k] = r.m]
           /\ lastCalls' = r.calls
           /\ runCalls' = [runCalls EXCEPT
                 ![k] = Min(2, (IF restarted THEN 0 ELSE @) + Len(r.calls))]
           /\ shows' = [shows EXCEPT ![k] = Min(2, @ + shown)]
    /\ lastOp' = Op("tick", k, FALSE)
    /\ UNCHANGED <<inside, phase, isVisibleProp, views, visibleView, configs,
                   currentView, renderPending, ops, repeat>>

\* The overlay that receives a tap: the last rendered one that intercepts
\* pointer events (all overlays fill the screen with the same zIndex).
TopOverlay(vs, ms) ==
    IF \E i \in 1..Len(vs) : Intercepts(ms[vs[i].key])
    THEN vs[CHOOSE i \in 1..Len(vs) :
              /\ Intercepts(ms[vs[i].key])
              /\ \A j \in (i+1)..Len(vs) : ~Intercepts(ms[vs[j].key])].key
    ELSE undefined

\* <TouchableWithoutFeedback onPress={onCancel}>
BackdropPress(m, key) ==
    IF m.onCancel # undefined
    THEN <<Call("onCancel", key, m.onCancel, "backdrop", key, FALSE)>>
    ELSE <<>>

\* The user taps the backdrop.
BackdropTap ==
    /\ consumed' = FALSE
    /\ TopOverlay(views, modals) # undefined
    /\ lastCalls' = BackdropPress(modals[TopOverlay(views, modals)], TopOverlay(views, modals))
    /\ lastOp' = Op("tap", TopOverlay(views, modals), FALSE)
    /\ UNCHANGED <<inside, phase, isVisibleProp, views, visibleView, configs,
                   currentView, renderPending, modals, ops, runCalls, shows, repeat>>

\* The hardwareBackPress listener registered after each Provider render:
\* function f() { const view = selectedView(currentView);
\*                if (view.onCancel) { view.onCancel(); return true; } return false; }
hardwareBackPress(cv, cfgs) ==
    LET view == selectedView(cfgs, cv) IN
    IF view.onCancel # undefined
    THEN [calls |-> <<Call("onCancel", cv, view.onCancel, "back", cv, FALSE)>>,
          result |-> TRUE]
    ELSE [calls |-> <<>>, result |-> FALSE]

\* The user presses the hardware back button.
BackPress ==
    /\ lastCalls' = hardwareBackPress(currentView, configs).calls
    /\ consumed' = hardwareBackPress(currentView, configs).result
    /\ lastOp' = Op("back", currentView, FALSE)
    /\ UNCHANGED <<inside, phase, isVisibleProp, views, visibleView, configs,
                   currentView, renderPending, modals, ops, runCalls, shows, repeat>>

\* ---------------------------------------------------------- specifications
\* The whole program: every declaration, every Modal's engine.
Next ==
    \/ \E d \in Decl, v \in BOOLEAN, cfg \in Config : Mount(d, v, cfg)
    \/ \E d \in Decl, v \in BOOLEAN, cfg \in Config, c \in BOOLEAN : Update(d, v, cfg, c)
    \/ \E d \in Decl : Unmount(d)
    \/ ProviderRender
    \/ \E k \in Decl, dt \in 1..MaxDt : Tick(k, dt)
    \/ BackdropTap
    \/ BackPress

Spec == Init /\ [][Next]_vars

\* The engine of a Modal is private to it and no registry operation reads
\* it, so the program is checked in two projections.
\*
\* SpecRegistry: all declarations and the Provider, without the animation
\* clock.  The completion callbacks, which only the engine reads, are left
\* undefined.
RegistryConfigs ==
    {c \in Config : c.onModalShow = undefined /\ c.onModalHide = undefined}

NextRegistry ==
    \/ \E d \in Decl, v \in BOOLEAN, cfg \in RegistryConfigs : Mount(d, v, cfg)
    \/ \E d \in Decl, v \in BOOLEAN, cfg \in RegistryConfigs, c \in BOOLEAN : Update(d, v, cfg, c)
    \/ \E d \in Decl : Unmount(d)
    \/ ProviderRender
    \/ BackdropTap
    \/ BackPress

SpecRegistry == Init /\ [][NextRegistry]_vars

\* SpecEngine: one declaration, the Provider and the animation clock.  The
\* fields only setVisible and the backdrop read keep their defaults.
Single == {cuid(NumDecl)}

EngineConfigs ==
    {c \in Config : c.onCancel = undefined /\ c.autoCloseWhenOpeningNextDialog}

NextEngine ==
    \/ \E d \in Single, v \in BOOLEAN, cfg \in EngineConfigs : Mount(d, v, cfg)
    \/ \E d \in Single, v \in BOOLEAN, cfg \in EngineConfigs, c \in BOOLEAN : Update(d, v, cfg, c)
    \/ \E d \in Single : Unmount(d)
    \/ ProviderRender
    \/ \E k \in Single, dt \in 1..MaxDt : Tick(k, dt)

SpecEngine == Init /\ [][NextEngine]_vars

TypeOK ==
    /\ \A k \in Decl : modals[k].position \in 0..One
    /\ \A k \in Decl : modals[k].frameTime \in 0..Duration
    /\ Len(lastCalls) <= 1
    /\ ops \in 0..MaxOps

\* ------------------------------------------------------------------ claims
\* Nothing is left to do for the overlay of `k`: the Provider has no render
\* outstanding, the clock of k's engine is stopped and no input of the block
\* was set since its last evaluation.
Settled(k) ==
    /\ modals[k].mounted
    /\ ~modals[k].clockRunning
    /\ ~modals[k].dirty
    /\ ~renderPending

CallsOf(calls, fn, key) == SelectSeq(calls, LAMBDA c : c.fn = fn /\ c.of = key)

\* C1: once the setVisible calls have stopped and the clock has nothing left
\* to evaluate, the progress rendered for a dialog is 1 if its last
\* setVisible was true and 0 if it was false.
C1_SettledProgress ==
    \A k \in Decl :
        Settled(k) =>
            Progress(modals[k]) = (IF Get(visibleView, k, FALSE) THEN One ELSE 0)

\* C2: an evaluation that abandons an unfinished run invokes no completion
\* callback and leaves the position where the interrupted run had brought it
\* (also when that run would have finished in this very evaluation); within a
\* run the position only moves toward the run's target; onModalShow is only
\* ever invoked for a run toward 1 that reached 1, onModalHide for a run
\* toward 0 that reached 0.
C2_Reversal ==
    [][\A k \in Decl :
        LET m == modals[k]
            n == modals'[k]
        IN  (m.mounted /\ lastOp'.op = "tick" /\ lastOp'.key = k) =>
              /\ (n.toValue # m.toValue /\ m.toValue # Unset /\ ~m.finished) =>
                    /\ lastCalls' = <<>>
                    /\ n.position = m.position
                    /\ ~n.finished
              /\ (n.toValue = m.toValue /\ n.toValue = 0) => n.position <= m.position
              /\ (n.toValue = m.toValue /\ n.toValue = 1) => n.position >= m.position
              /\ CallsOf(lastCalls', "onModalShow", k) # <<>> =>
                    n.toValue = 1 /\ n.position = One
              /\ CallsOf(lastCalls', "onModalHide", k) # <<>> =>
                    n.toValue = 0 /\ n.position = 0
    ]_vars

\* A hide run has just been started from the position a show run had reached
\* one frame before its end.
C2_Witness ==
    \E k \in Decl :
        /\ lastOp = Op("tick", k, FALSE)
        /\ modals[k].animationState = END
        /\ modals[k].toValue = 0
        /\ modals[k].frameTime = 0
        /\ ~modals[k].finished
        /\ modals[k].position = Easing(Duration - 1)
        /\ modals[k].position \notin {0, One}

\* C3: the completion callback of a run is invoked exactly once: never a
\* second time before a new run has been started.
C3_ExactlyOnce == \A k \in Decl : runCalls[k] <= 1

\* C4: when B is opened while A is visible with an onCancel and
\* autoCloseWhenOpeningNextDialog = true, A's onCancel is invoked exactly
\* once, and before VisibilityState[B] becomes true.
C4_AutoClose ==
    [][\A a \in Decl, b \in Decl :
        ( /\ a # b
          /\ lastOp'.opened /\ lastOp'.key = b
          /\ Get(visibleView, a, FALSE)
          /\ ~Get(visibleView, b, FALSE)
          /\ selectedView(configs, a).onCancel # undefined
          /\ selectedView(configs, a).autoCloseWhenOpeningNextDialog )
        => /\ Len(CallsOf(lastCalls', "onCancel", a)) = 1
           /\ ~CallsOf(lastCalls', "onCancel", a)[1].keyVisible
    ]_vars

\* C5: a dialog whose autoCloseWhenOpeningNextDialog is false never has its
\* onCancel invoked by the opening of another dialog, whatever the flag of
\* the dialog being opened.
C5_NoAutoClose ==
    [][\A a \in Decl :
        ( /\ HasKey(configs, a)
          /\ ~selectedView(configs, a).autoCloseWhenOpeningNextDialog
          /\ lastOp'.opened /\ lastOp'.key # a )
        => CallsOf(lastCalls', "onCancel", a) = <<>>
    ]_vars

\* B (flag true) has just been opened while A, visible and current, has an
\* onCancel and the flag false: nothing was invoked.
C5_Witness ==
    \E a \in Decl, b \in Decl :
        /\ a # b
        /\ lastOp.opened /\ lastOp.key = b
        /\ currentView = a
        /\ Get(visibleView, a, FALSE)
        /\ selectedView(configs, a).onCancel # undefined
        /\ ~selectedView(configs, a).autoCloseWhenOpeningNextDialog
        /\ selectedView(configs, b).autoCloseWhenOpeningNextDialog
        /\ lastCalls = <<>>

\* C6 (as claimed): the flag of the dialog being opened governs: opening B,
\* whose flag is true, while A is visible (and rendered as current by the
\* Provider) and has an onCancel, invokes A's onCancel.
C6_OpenedFlagGoverns ==
    [][\A a \in Decl, b \in Decl :
        ( /\ a # b
          /\ lastOp'.opened /\ lastOp'.key = b
          /\ selectedView(configs', b).autoCloseWhenOpeningNextDialog
          /\ currentView = a
          /\ Get(visibleView, a, FALSE)
          /\ selectedView(configs, a).onCancel # undefined )
        => CallsOf(lastCalls', "onCancel", a) # <<>>
    ]_vars

\* C6 (amended): the flag of the dialog that is current governs: opening B
\* while A is the Provider's current dialog and has an onCancel invokes A's
\* onCancel if and only if A's flag is true, whatever B's flag.
C6_CurrentFlagGoverns ==
    [][\A a \in Decl, b \in Decl :
        ( /\ a # b
          /\ lastOp'.opened /\ lastOp'.key = b
          /\ currentView = a
          /\ selectedView(configs, a).onCancel # undefined )
        => ( CallsOf(lastCalls', "onCancel", a) # <<>>
               <=> selectedView(configs, a).autoCloseWhenOpeningNextDialog )
    ]_vars

\* B, whose flag is false, has just been opened while A was current with the
\* flag true: A's onCancel was invoked.
C6_Witness ==
    \E a \in Decl, b \in Decl :
        /\ a # b
        /\ lastOp.opened /\ lastOp.key = b
        /\ currentView = a
        /\ selectedView(configs, a).autoCloseWhenOpeningNextDialog
        /\ ~selectedView(configs, b).autoCloseWhenOpeningNextDialog
        /\ CallsOf(lastCalls, "onCancel", a) # <<>>

\* C7: asking for a visible dialog to be visible again (a re-render of its
\* declaration with isVisible still true, a Provider render that passes
\* isVisible = true again, an evaluation that reads BEGAN again) starts no new
\* run: position and elapsed time are not reset; and onModalShow is invoked at
\* most once as long as no setVisible(id, false) intervenes.
C7_Idempotent ==
    [][\A k \in Decl :
        LET m == modals[k]
            n == modals'[k]
            engine(x) == <<x.animationState, x.dirty, x.finished, x.position,
                           x.timeSet, x.frameTime, x.toValue, x.clockRunning>>
        IN  /\ (lastOp'.op = "update" /\ lastOp'.key = k /\ isVisibleProp[k]
                    /\ isVisibleProp'[k]) =>
                  visibleView' = visibleView /\ lastCalls' = <<>>
            /\ (lastOp'.op = "render" /\ m.mounted /\ m.isVisible /\ n.isVisible) =>
                  engine(n) = engine(m)
            /\ (lastOp'.op = "tick" /\ lastOp'.key = k /\ m.animationState = BEGAN
                    /\ m.toValue = 1) =>
                  /\ n.frameTime >= m.frameTime
                  /\ n.position >= m.position
                  /\ (m.finished => n.finished)
            /\ shows'[k] <= 1
    ]_vars

\* A show run has completed and invoked onModalShow once; the declaration was
\* rendered with isVisible = true again and the Provider has rendered since.
C7_Witness ==
    \E k \in Decl :
        /\ repeat[k]
        /\ lastOp.op = "render"
        /\ modals[k].isVisible
        /\ modals[k].animationState = BEGAN
        /\ modals[k].finished
        /\ shows[k] = 1

\* C8: once a declaration has unmounted and the Provider has rendered, its
\* content is absent, its VisibilityState is false and no overlay is rendered
\* for its identity.
C8_UnmountRemoves ==
    \A d \in Decl :
        (phase[d] = "unmounted" /\ ~renderPending) =>
            /\ ~Get(views, cuid(d), FALSE)
            /\ ~Get(visibleView, cuid(d), FALSE)
            /\ ~modals[cuid(d)].mounted

\* C9: a declaration rendered outside a Provider throws in its first render
\* and performs no registry operation; one rendered below a Provider never
\* throws.
C9_UsageError ==
    \A d \in Decl :
        /\ phase[d] # "new" => (phase[d] = "threw" <=> ~inside[d])
        /\ phase[d] = "threw" =>
              /\ ~HasKey(views, cuid(d))
              /\ ~HasKey(visibleView, cuid(d))
              /\ ~HasKey(configs, cuid(d))
              /\ ~modals[cuid(d)].mounted

\* One declaration has thrown, another one is mounted and rendered.
C9_Witness ==
    \E d \in Decl, e \in Decl :
        /\ phase[d] = "threw" /\ lastOp = Op("throw", cuid(d), FALSE)
        /\ phase[e] = "mounted" /\ modals[cuid(e)].mounted

\* C10: whenever the Provider has no render outstanding, an overlay
\* intercepts pointer input if and only if the VisibilityState of its dialog
\* is true.
C10_InterceptsIffVisible ==
    ~renderPending =>
        \A k \in Decl : Intercepts(modals[k]) <=> Get(visibleView, k, FALSE)


\* C11: a back press (taken when the Provider has no render outstanding) acts
\* on the first identity, in insertion order, whose VisibilityState is true at
\* that moment: it invokes exactly that identity's onCancel and returns true
\* when there is one, and otherwise invokes nothing and returns false.
C11_BackActsOnCurrent ==
    [][(lastOp'.op = "back" /\ ~renderPending) =>
        LET cur  == CurrentViewOf(visibleView)
            view == selectedView(configs, cur)
        IN  IF view.onCancel # undefined
            THEN /\ lastCalls' = <<Call("onCancel", cur, view.onCancel, "back", cur, FALSE)>>
                 /\ consumed'
            ELSE /\ lastCalls' = <<>>
                 /\ ~consumed'
    ]_vars

\* C12: once the renderer has processed the latest visibility value of a
\* dialog, the signal of its engine is BEGAN when the VisibilityState is true
\* and END when it is false, also when the declaration was mounted with
\* isVisible = true.  (A dialog that has been hidden since its mount is let
\* off with the initial signal, which renders like END.)
C12_SignalMatchesVisibility ==
    \A k \in Decl :
        ( /\ modals[k].mounted
          /\ ~renderPending
          /\ modals[k].isVisible = Get(visibleView, k, FALSE) )
        => IF Get(visibleView, k, FALSE)
           THEN modals[k].animationState = BEGAN
           ELSE modals[k].animationState \in {END, Unset}

\* C13: the identity whose onCancel setVisible(id, true) invokes is one whose
\* VisibilityState is true when the call is made: the onCancel of a hidden
\* dialog is never invoked, and the auto-close of the first visible dialog is
\* never skipped.
C13_CancelsTheVisible ==
    [][\A a \in Decl :
        (lastOp'.opened /\ lastOp'.key # a) =>
            /\ CallsOf(lastCalls', "onCancel", a) # <<>> => Get(visibleView, a, FALSE)
            /\ ( /\ CurrentViewOf(visibleView) = a
                 /\ selectedView(configs, a).onCancel # undefined
                 /\ selectedView(configs, a).autoCloseWhenOpeningNextDialog )
               => CallsOf(lastCalls', "onCancel", a) # <<>>
    ]_vars

\* C14: after setVisible(id, v) the VisibilityState of id is v, whether or
\* not an onCancel was invoked, and the entry of every other identity is what
\* it was: the Registry never hides the previously visible dialog itself.
C14_SetsOnlyItsOwnEntry ==
    [][\A k \in Decl :
        IF k = lastOp'.key /\ lastOp'.op \in {"mount", "unmount"}
        THEN /\ HasKey(visibleView', k)
             /\ Get(visibleView', k, FALSE) = lastOp'.opened
        ELSE IF k = lastOp'.key /\ lastOp'.op = "update"
                                /\ isVisibleProp'[k] # isVisibleProp[k]
        THEN /\ HasKey(visibleView', k)
             /\ Get(visibleView', k, FALSE) = isVisibleProp'[k]
        ELSE /\ HasKey(visibleView', k) = HasKey(visibleView, k)
             /\ Get(visibleView', k, FALSE) = Get(visibleView, k, FALSE)
    ]_vars

\* An opening has just invoked the onCancel of the current dialog, and both
\* that dialog and the opened one are visible.
C14_Witness ==
    /\ lastOp.opened
    /\ lastCalls # <<>>
    /\ lastCalls[1].of # lastOp.key
    /\ Get(visibleView, lastCalls[1].of, FALSE)
    /\ Get(visibleView, lastOp.key, FALSE)

\* C15: a completion callback is only invoked by an evaluation of the engine
\* that leaves the run finished, with progress at the run's target and the
\* signal matching: onModalShow with progress 1 under BEGAN, onModalHide
\* with progress 0 under END; none is invoked while the signal is still -1.
C15_CompletionOnlyWhenFinished ==
    [][\A k \in Decl :
        LET n == modals'[k]
            tick == lastOp'.op = "tick" /\ lastOp'.key = k
        IN  /\ CallsOf(lastCalls', "onModalShow", k) # <<>> =>
                /\ tick
                /\ n.finished
                /\ n.toValue = 1 /\ Progress(n) = One
                /\ n.animationState = BEGAN
            /\ CallsOf(lastCalls', "onModalHide", k) # <<>> =>
                /\ tick
                /\ n.finished
                /\ n.toValue = 0 /\ Progress(n) = 0
                /\ n.animationState = END
            /\ (tick /\ modals[k].animationState = Unset) => lastCalls' = <<>>
    ]_vars

\* A hide run has just finished and invoked onModalHide.
C15_Witness ==
    \E k \in Decl :
        /\ lastOp = Op("tick", k, FALSE)
        /\ CallsOf(lastCalls, "onModalHide", k) # <<>>
        /\ modals[k].finished
        /\ modals[k].animationState = END
        /\ Progress(modals[k]) = 0

\* C16: opening a dialog never cancels that same dialog: setVisible(id, true)
\* never invokes the onCancel stored in id's own configuration.
C16_NeverCancelsItself ==
    [][lastOp'.opened => CallsOf(lastCalls', "onCancel", lastOp'.key) = <<>>]_vars

\* C17: the completion callback invoked when a transition finishes is the
\* onModalShow / onModalHide of the most recent setConfig for that dialog, not
\* the one given when the dialog's <Modal> was first rendered.
C17_LatestCallback ==
    [][\A k \in Decl :
        LET n   == modals'[k]
            cfg == selectedView(configs, k)
        IN  (lastOp'.op = "tick" /\ lastOp'.key = k /\ n.finished) =>
              /\ n.animationState = BEGAN =>
                    lastCalls' = IF cfg.onModalShow # undefined
                                 THEN <<Call("onModalShow", k, cfg.onModalShow, "engine", k, FALSE)>>
                                 ELSE <<>>
              /\ n.animationState = END =>
                    lastCalls' = IF cfg.onModalHide # undefined
                                 THEN <<Call("onModalHide", k, cfg.onModalHide, "engine", k, FALSE)>>
                                 ELSE <<>>
    ]_vars

\* C18: once a declaration has unmounted, none of its callbacks (onCancel,
\* onModalShow, onModalHide) is invoked again, whatever happens later.
C18_SilentAfterUnmount ==
    [][\A k \in Decl :
        phase[k] = "unmounted" =>
            SelectSeq(lastCalls', LAMBDA c : c.of = k) = <<>>
    ]_vars

====
